---- MODULE Spec2Model ----
(***************************************************************************)
(* A model of watch.c (procps, paging fork): the main loop that re-runs a  *)
(* command, reads its output in chunks into a buffer of chtype cells,      *)
(* annotates differences against the previous run, replays the buffer      *)
(* through a scrollable viewport, polls paging keys and checks the         *)
(* interval timer; with the SIGWINCH handler as the one asynchronous       *)
(* event.                                                                  *)
(*                                                                         *)
(* A chtype cell is the record [ch, attr]: ch is the low 8 bits            *)
(* (A_CHARTEXT), attr the set of the bit positions 8..31 that are set      *)
(* (A_ATTRIBUTES).  "|=" is set union, "& A_ATTRIBUTES" the attr field.    *)
(***************************************************************************)
EXTENDS Integers, Sequences, FiniteSets, TLC

VARIABLES
    pc,                       \* position of main() in the loop body
    command,                  \* the command being watched (argv)
    option_differences,       \* -d
    option_differences_cumulative, \* -d=cumulative
    option_paging,            \* -p
    show_title,               \* 2, or 0 with -t
    char_signed,              \* whether plain char is signed in this build
    print_8bit,               \* whether isprint accepts the bytes from 0xa0 up
    interval,                 \* -n, in ticks of the clock
    since_then,               \* time_now - time_then at the last gettimeofday
    height,                   \* static int height
    width,                    \* static int width
    term_rows,                \* the terminal's actual row count (ioctl ws_row)
    screen_size_changed,      \* flag set by winch_handler
    rerun_command,
    view_changed,
    max_y,
    origin_x,
    origin_y,
    go_to_end,
    command_pipe,             \* FILE *: 0 is NULL, otherwise the pipe's id
    open_pipes,               \* ids of the pipes popen'ed and not yet pclose'd
    stream,                   \* state of the pipe behind command_pipe
    run_output,               \* bytes the current run's command writes in all
    previous_run_output,      \* run_output of the run before the current one
    jump_before_known,        \* a pending 'G' was pressed while max_y was -1
    command_output,           \* the first command_output_length cells
    previous_command_output,  \* the first previous_command_output_length cells
    previous_alloc,           \* "unset" (NULL at start), "null" or "ok" (malloc)
    x, y, offset, done,       \* locals of the render pass
    curses_started,           \* terminal is in curses mode (endwin not yet run)
    exit_status               \* -1 while running

vars == <<pc, command, option_differences, option_differences_cumulative,
          option_paging, show_title, char_signed, print_8bit, interval,
          since_then,
          height, width, term_rows,
          screen_size_changed, rerun_command, view_changed, max_y, origin_x,
          origin_y, go_to_end, command_pipe, open_pipes, stream, run_output,
          previous_run_output, jump_before_known, command_output,
          previous_command_output, previous_alloc, x, y, offset, done,
          curses_started, exit_status>>

\* The configuration, fixed once the options are parsed, and the columns
\* of the terminal, which the model resizes in rows only.
config == <<command, option_differences, option_differences_cumulative,
            option_paging, show_title, char_signed, print_8bit, interval,
            width>>

----------------------------------------------------------------------------
(* Bounds of the model. *)

\* Most lines the "lines" command prints.
MaxRows == 4
\* Longest output of the "bytes" command.
MaxLen == 2
\* Largest horizontal origin explored (KEY_RIGHT is unbounded in the code).
MaxOriginX == 8
\* Bytes per fread: stands for sizeof(buffer) = 128, scaled to the outputs.
ChunkSize == 1
\* Columns of the narrow terminal.
NarrowCols == 9
\* Row counts the terminal takes.
MinTermRows == 3
MaxTermRows == 4
\* Number of FILE objects popen can hand out.
MaxPipes == 2

----------------------------------------------------------------------------
(* Program constants. *)

TitleLines == 2         \* show_title = 2
ScrollStep == 8         \* origin_y += 8, origin_x += 8
TabStep == 8            \* x += 8
DefaultHeight == 24     \* height = 24
DefaultWidth == 80      \* width = 80
StandoutBit == 16       \* A_STANDOUT = NCURSES_BITS(1U, 8): bit 8 + 8
NL == 10
TAB == 9

A_STANDOUT == {StandoutBit}
\* The bit positions of A_ATTRIBUTES (0xffffff00).
AttrBits == 8..31

KEY_NONE == "ERR"
PagingKeys == {"KEY_UP", "KEY_RIGHT", "KEY_DOWN", "KEY_LEFT", "KEY_NPAGE",
               "KEY_PPAGE", "g", "G"}

Max(a, b) == IF a > b THEN a ELSE b

TermRows == MinTermRows..MaxTermRows

----------------------------------------------------------------------------
(* The commands watched and the outputs they can produce. *)

\* Bytes the commands write besides newlines: an ASCII letter, and a byte
\* with the top bit set (negative as a signed char).
SampleBytes == [letter |-> 97, high |-> 233]

RECURSIVE Lines(_)
Lines(n) == IF n = 0 THEN <<>> ELSE <<SampleBytes.letter, NL>> \o Lines(n - 1)

RECURSIVE SeqsUpTo(_, _)
SeqsUpTo(S, n) ==
    IF n = 0 THEN {<<>>}
    ELSE LET shorter == SeqsUpTo(S, n - 1)
         IN  shorter \cup {Append(s, b) : s \in {t \in shorter : Len(t) = n - 1}, b \in S}

DiffAlphabet == {SampleBytes.letter, NL, SampleBytes.high}

\* The text "a\tb\nc".
SampleText == <<97, TAB, 98, NL, 99>>

\* "lines" prints 0..MaxRows rows of text; "text" prints nothing, the
\* sample, or the sample and two more lines; "bytes" prints any short string.
Outputs(cmd) ==
    CASE cmd = "lines" -> {Lines(n) : n \in 0..MaxRows}
      [] cmd = "text"  -> {<<>>, SampleText,
                           SampleText \o <<NL, SampleBytes.high, NL>>}
      [] OTHER         -> SeqsUpTo(DiffAlphabet, MaxLen)

----------------------------------------------------------------------------
(* Cells. *)

\* command_output[...] = buffer[i]: a char converted to chtype.  A signed
\* char with the top bit set is negative and converts to a chtype with
\* every higher bit set; an unsigned char keeps its value.
ToChtype(b) ==
    [ch |-> b, attr |-> IF char_signed /\ b >= 128 THEN AttrBits ELSE {}]

ToCells(bytes) == [i \in 1..Len(bytes) |-> ToChtype(bytes[i])]

\* cell & A_CHARTEXT, for every cell.
Chars(cells) == [i \in 1..Len(cells) |-> cells[i].ch]

IsPrefix(s, t) == Len(s) <= Len(t) /\ SubSeq(t, 1, Len(s)) = s

command_output_length == Len(command_output)
previous_command_output_length == Len(previous_command_output)

\* The attributes carried over only where the character changed.
AnnotateCellCarryOnChange(new, old) ==
    IF new.ch # old.ch
    THEN [new EXCEPT !.attr =
            @ \cup A_STANDOUT \cup
              (IF option_differences_cumulative = 1 THEN old.attr ELSE {})]
    ELSE new

\* The body of the comparison loop for one offset.
AnnotateCell(new, old) ==
    LET marked == IF new.ch # old.ch
                  THEN [new EXCEPT !.attr = @ \cup A_STANDOUT]
                  ELSE new
    IN  IF option_differences_cumulative = 1
        THEN [marked EXCEPT !.attr = @ \cup old.attr]
        ELSE marked

\* The comparison loop indexing the previous buffer from the start of the
\* chunk instead of by the cell's offset.
AnnotateFromChunkStart(cells, from) ==
    IF option_differences = 1 /\ previous_alloc = "ok"
    THEN [i \in 1..Len(cells) |->
            IF i > from /\ i - from <= previous_command_output_length
            THEN AnnotateCell(cells[i], previous_command_output[i - from])
            ELSE cells[i]]
    ELSE cells

\* The comparison loop over the cells appended after the first `from` ones.
Annotate(cells, from) ==
    IF option_differences = 1 /\ previous_alloc = "ok"
    THEN [i \in 1..Len(cells) |->
            IF i > from /\ i <= previous_command_output_length
            THEN AnnotateCell(cells[i], previous_command_output[i])
            ELSE cells[i]]
    ELSE cells

----------------------------------------------------------------------------
(* The replay of the buffer: the inner while loop of the render pass. *)

\* The switch that advances x and y past one cell.  The switch is on the
\* whole chtype, so a tab or newline that carries attribute bits takes the
\* default branch.
Advance(cell, cx, cy) ==
    IF cell.ch = TAB /\ cell.attr = {} THEN [x |-> cx + TabStep, y |-> cy]
    ELSE IF cell.ch = NL /\ cell.attr = {} THEN [x |-> 0, y |-> cy + 1]
    ELSE [x |-> cx + 1, y |-> cy]

\* while ((offset < command_output_length) && !done) { ... }
RECURSIVE ReplayFrom(_, _, _)
ReplayFrom(cx, cy, off) ==
    IF off >= command_output_length
    THEN [x |-> cx, y |-> cy, offset |-> off, done |-> FALSE]
    ELSE LET nxt == Advance(command_output[off + 1], cx, cy)
             d   == ~go_to_end /\ nxt.y > origin_y + height
         IN  IF d THEN [x |-> nxt.x, y |-> nxt.y, offset |-> off + 1, done |-> TRUE]
             ELSE ReplayFrom(nxt.x, nxt.y, off + 1)

\* isprint(c): the ASCII printables, and with FORCE_8BIT or a locale that
\* has them, the bytes from 0xa0 up.
IsPrint(c) == c \in 32..126 \/ (print_8bit /\ c >= 160)

\* The test that guards move() and addch(), with the title rows not
\* reserved.
VisibleIgnoringTitle(cell, cx, cy) ==
    /\ IsPrint(cell.ch)
    /\ cy - origin_y >= 0 /\ cy - origin_y < height
    /\ cx - origin_x < width /\ cx - origin_x >= 0
    /\ ~go_to_end

\* The test that guards move() and addch().
Visible(cell, cx, cy) ==
    /\ IsPrint(cell.ch)
    /\ cy - origin_y >= show_title /\ cy - origin_y < height
    /\ cx - origin_x < width /\ cx - origin_x >= 0
    /\ ~go_to_end

\* The cells one run of the inner while loop goes through, each with the
\* x and y it is met at.
RECURSIVE Processed(_, _, _)
Processed(cx, cy, off) ==
    IF off >= command_output_length
    THEN {}
    ELSE LET nxt == Advance(command_output[off + 1], cx, cy)
             d   == ~go_to_end /\ nxt.y > origin_y + height
             met == {[offset |-> off, x |-> cx, y |-> cy]}
         IN  IF d THEN met ELSE met \cup Processed(nxt.x, nxt.y, off + 1)

\* move(y - origin_y, x - origin_x); addch(command_output[offset]); for the
\* cells of one run of the inner while loop.
Addch(cx, cy, off) ==
    {[row |-> p.y - origin_y, col |-> p.x - origin_x, offset |-> p.offset] :
        p \in {q \in Processed(cx, cy, off) :
                   Visible(command_output[q.offset + 1], q.x, q.y)}}

----------------------------------------------------------------------------
(* Exits. *)

\* do_exit(status): endwin() if curses was started, then exit.
do_exit(status) ==
    /\ pc' = "exited"
    /\ exit_status' = status
    /\ curses_started' = FALSE

\* exit(status) called directly.
plain_exit(status) ==
    /\ pc' = "exited"
    /\ exit_status' = status
    /\ UNCHANGED curses_started

----------------------------------------------------------------------------
(* The state at the top of the first iteration of for (;;): curses is     *)
(* started, the size was queried once, nothing has run yet.               *)

InitLoop ==
    /\ pc = "resize_check"
    /\ screen_size_changed = 0
    /\ rerun_command = 1
    /\ view_changed = 0
    /\ max_y = -1
    /\ origin_x = 0
    /\ origin_y = 0
    /\ go_to_end = FALSE
    /\ command_pipe = 0
    /\ open_pipes = {}
    /\ stream = [data |-> <<>>, hangs |-> FALSE, eof |-> FALSE]
    /\ run_output = <<>>
    /\ previous_run_output = <<>>
    /\ jump_before_known = FALSE
    /\ command_output = <<>>
    /\ previous_command_output = <<>>
    /\ previous_alloc = "unset"
    /\ x = 0 /\ y = 0 /\ offset = 0 /\ done = FALSE
    /\ since_then = 0
    /\ curses_started = TRUE
    /\ exit_status = -1

\* watch -p <lines>: paging through the output of a command that prints
\* lines, on a terminal that is resized.  The lines are ASCII, which
\* converts to chtype alike whether char is signed or not; the build taken
\* is the x86 one, where it is signed.
Init ==
    /\ InitLoop
    /\ command = "lines"
    /\ option_differences = 0
    /\ option_differences_cumulative = 0
    /\ option_paging = 1
    /\ show_title \in {0, TitleLines}
    /\ char_signed = TRUE
    /\ print_8bit = FALSE
    /\ interval = 1
    /\ term_rows \in TermRows
    /\ height = term_rows
    /\ width = DefaultWidth

\* watch -d <bytes> and watch -d=cumulative <bytes>, no paging, on a
\* terminal of the default size that is not resized.
InitDiff ==
    /\ InitLoop
    /\ command = "bytes"
    /\ option_differences = 1
    /\ option_differences_cumulative \in {0, 1}
    /\ option_paging = 0
    /\ show_title = TitleLines
    /\ char_signed \in BOOLEAN
    /\ print_8bit = FALSE
    /\ interval = 1
    /\ term_rows = DefaultHeight
    /\ height = term_rows
    /\ width = DefaultWidth

\* watch -p -n <2 ticks> <text>: paging through text with a tab in it, on
\* a narrow terminal that is not resized.
InitDraw ==
    /\ InitLoop
    /\ command = "text"
    /\ option_differences = 0
    /\ option_differences_cumulative = 0
    /\ option_paging = 1
    /\ show_title \in {0, TitleLines}
    /\ char_signed = TRUE
    /\ print_8bit \in BOOLEAN
    /\ interval = 2
    /\ term_rows = MinTermRows
    /\ height = term_rows
    /\ width \in {NarrowCols, NarrowCols + 1}

----------------------------------------------------------------------------
(* The signal handler. *)

\* The terminal is resized to r rows and SIGWINCH is delivered.
winch_handler ==
    /\ pc \notin {"exited", "crashed"}
    /\ \E r \in TermRows :
          /\ r # term_rows
          /\ term_rows' = r
    /\ screen_size_changed' = 1
    /\ UNCHANGED <<pc, config, since_then, previous_run_output, jump_before_known, height, rerun_command, view_changed, max_y,
                   origin_x, origin_y, go_to_end, command_pipe, open_pipes,
                   stream, run_output, command_output,
                   previous_command_output, previous_alloc, x, y, offset,
                   done, curses_started, exit_status>>

----------------------------------------------------------------------------
(* The loop body. *)

\* if (screen_size_changed)
ResizeCheck ==
    /\ pc = "resize_check"
    /\ pc' = IF screen_size_changed = 1 THEN "get_terminal_size" ELSE "clamp"
    /\ UNCHANGED <<config, since_then, previous_run_output, jump_before_known, height, term_rows, screen_size_changed,
                   rerun_command, view_changed, max_y, origin_x, origin_y,
                   go_to_end, command_pipe, open_pipes, stream, run_output,
                   command_output, previous_command_output, previous_alloc,
                   x, y, offset, done, curses_started, exit_status>>

\* get_terminal_size(); resizeterm(height, width): LINES is not set in the
\* environment (incoming_rows < 0), so the rows come from a successful
\* ioctl(TIOCGWINSZ) with ws_row > 0; ws_col is the width already in use.
get_terminal_size ==
    /\ pc = "get_terminal_size"
    /\ height' = term_rows
    /\ pc' = "resize_ack"
    /\ UNCHANGED <<config, since_then, previous_run_output, jump_before_known, term_rows, screen_size_changed, rerun_command,
                   view_changed, max_y, origin_x, origin_y, go_to_end,
                   command_pipe, open_pipes, stream, run_output,
                   command_output, previous_command_output, previous_alloc,
                   x, y, offset, done, curses_started, exit_status>>

\* screen_size_changed = 0; view_changed = 1;
ResizeAck ==
    /\ pc = "resize_ack"
    /\ screen_size_changed' = 0
    /\ view_changed' = 1
    /\ pc' = "clamp"
    /\ UNCHANGED <<config, since_then, previous_run_output, jump_before_known, height, term_rows, rerun_command, max_y, origin_x,
                   origin_y, go_to_end, command_pipe, open_pipes, stream,
                   run_output, command_output, previous_command_output,
                   previous_alloc, x, y, offset, done, curses_started,
                   exit_status>>

\* The clamp left out.
UnclampedOriginY == origin_y

\* origin_y = origin_y > max_y - height ? max_y - height : origin_y
ClampedOriginY ==
    IF max_y # -1 /\ origin_y > max_y - height THEN max_y - height ELSE origin_y

\* Clamp viewport to visible size.
Clamp ==
    /\ pc = "clamp"
    /\ origin_y' = ClampedOriginY
    /\ pc' = "decide"
    /\ UNCHANGED <<config, since_then, previous_run_output, jump_before_known, height, term_rows, screen_size_changed,
                   rerun_command, view_changed, max_y, origin_x, go_to_end,
                   command_pipe, open_pipes, stream, run_output,
                   command_output, previous_command_output, previous_alloc,
                   x, y, offset, done, curses_started, exit_status>>

\* The screen is redrawn for a new run only.
NeedsRedrawOnRerunOnly == rerun_command = 1

\* rerun_command || view_changed
NeedsRedraw == rerun_command = 1 \/ view_changed = 1

\* if (rerun_command || view_changed) { clear(); if (rerun_command) ...
RedrawDecision ==
    /\ pc = "decide"
    /\ pc' = IF ~NeedsRedraw THEN "input"
             ELSE IF rerun_command = 1 THEN "rerun"
             ELSE "restart_draw"
    /\ UNCHANGED <<config, since_then, previous_run_output, jump_before_known, height, term_rows, screen_size_changed,
                   rerun_command, view_changed, max_y, origin_x, origin_y,
                   go_to_end, command_pipe, open_pipes, stream, run_output,
                   command_output, previous_command_output, previous_alloc,
                   x, y, offset, done, curses_started, exit_status>>

PipeIds == 1..MaxPipes

\* The old pipe left open.
PcloseSkipped == open_pipes

\* pclose(command_pipe), when command_pipe is not NULL.
Pclose == IF command_pipe # 0 THEN open_pipes \ {command_pipe} ELSE open_pipes

\* The copy taken after the length was reset.
SnapshotAfterReset == <<>>

\* What memcpy leaves in previous_command_output: the command_output_length
\* cells of command_output, taken before the length is reset.
Snapshot == command_output

\* The rerun block: pclose, popen, max_y = -1, snapshot, reset.  The new
\* command writes `out` and then exits, or stalls with its stream open.
\* malloc(0) returns NULL or a pointer; when malloc fails for a buffer that
\* has cells, memcpy writes through NULL and the process dies there (what
\* the new command would have written is then never read).
Rerun ==
    /\ pc = "rerun"
    /\ LET free == PipeIds \ Pclose
           id   == CHOOSE i \in free : \A j \in free : i <= j
       IN  \E popen_ok \in BOOLEAN, alloc \in {"ok", "null"} :
             IF ~popen_ok \/ free = {}
             THEN /\ command_pipe' = 0
                  /\ open_pipes' = Pclose
                  /\ do_exit(2)
                  /\ UNCHANGED <<max_y, stream, run_output,
                                 previous_run_output, command_output,
                                 previous_command_output, previous_alloc>>
             ELSE /\ command_pipe' = id
                  /\ open_pipes' = Pclose \cup {id}
                  /\ max_y' = -1
                  /\ previous_alloc' = alloc
                  /\ UNCHANGED <<curses_started, exit_status>>
                  /\ IF alloc = "null" /\ command_output_length > 0
                     THEN /\ pc' = "crashed"
                          /\ UNCHANGED <<stream, run_output,
                                         previous_run_output, command_output,
                                         previous_command_output>>
                     ELSE \E out \in Outputs(command), hangs \in BOOLEAN :
                          /\ stream' = [data |-> out, hangs |-> hangs,
                                        eof |-> FALSE]
                          /\ run_output' = out
                          /\ previous_run_output' = run_output
                          /\ previous_command_output' = Snapshot
                          /\ command_output' = <<>>
                          /\ pc' = "restart_draw"
    /\ UNCHANGED <<command, option_differences,
                   option_differences_cumulative, option_paging, show_title,
                   char_signed, print_8bit, interval, width, since_then,
                   jump_before_known, height, term_rows,
                   screen_size_changed, rerun_command, view_changed,
                   origin_x, origin_y, go_to_end, x, y, offset, done>>

\* restart_draw: x = 0; y = show_title; int offset = 0;
RestartDraw ==
    /\ pc = "restart_draw"
    /\ x' = 0
    /\ y' = show_title
    /\ offset' = 0
    /\ done' = FALSE
    /\ pc' = "replay"
    /\ UNCHANGED <<config, since_then, previous_run_output, jump_before_known, height, term_rows, screen_size_changed,
                   rerun_command, view_changed, max_y, origin_x, origin_y,
                   go_to_end, command_pipe, open_pipes, stream, run_output,
                   command_output, previous_command_output, previous_alloc,
                   curses_started, exit_status>>

\* int done = 0; the inner while loop; if (done) break;
Replay ==
    /\ pc = "replay"
    /\ LET r == ReplayFrom(x, y, offset)
       IN  /\ x' = r.x
           /\ y' = r.y
           /\ offset' = r.offset
           /\ done' = r.done
           /\ pc' = IF r.done THEN "refresh" ELSE "feof"
    /\ UNCHANGED <<config, since_then, previous_run_output, jump_before_known, height, term_rows, screen_size_changed,
                   rerun_command, view_changed, max_y, origin_x, origin_y,
                   go_to_end, command_pipe, open_pipes, stream, run_output,
                   command_output, previous_command_output, previous_alloc,
                   curses_started, exit_status>>

\* origin_y = y - height, at the end of a go-to-end scan.
EndOriginY == y - height

\* if (feof(command_pipe)) { max_y = y; if (go_to_end) {...} break; }
FeofCheck ==
    /\ pc = "feof"
    /\ IF stream.eof
       THEN /\ max_y' = y
            /\ IF go_to_end
               THEN /\ origin_y' = EndOriginY
                    /\ go_to_end' = FALSE
                    /\ jump_before_known' = FALSE
                    /\ pc' = "restart_draw"
               ELSE /\ pc' = "refresh"
                    /\ UNCHANGED <<origin_y, go_to_end, jump_before_known>>
       ELSE /\ pc' = "fread"
            /\ UNCHANGED <<max_y, origin_y, go_to_end, jump_before_known>>
    /\ UNCHANGED <<config, since_then, previous_run_output, height, term_rows, screen_size_changed,
                   rerun_command, view_changed, origin_x, command_pipe,
                   open_pipes, stream, run_output, command_output,
                   previous_command_output, previous_alloc, x, y, offset,
                   done, curses_started, exit_status>>

\* fread returns once it has ChunkSize bytes or the stream ends; while the
\* command holds its stream open without writing enough, it blocks.
FreadReturns == Len(stream.data) >= ChunkSize \/ ~stream.hangs

\* The chunk copied to the start of command_output.
AppendedAtStart(buffer) ==
    ToCells(buffer) \o SubSeq(command_output, Len(buffer) + 1, Len(command_output))

\* command_output[command_output_length + i] = buffer[i]
Appended(buffer) == command_output \o ToCells(buffer)

\* fread, realloc, the copy into command_output and the comparison loop.
Fread ==
    /\ pc = "fread"
    /\ FreadReturns
    /\ LET bytes_read == IF Len(stream.data) < ChunkSize
                         THEN Len(stream.data) ELSE ChunkSize
           buffer == SubSeq(stream.data, 1, bytes_read)
       IN  /\ stream' = [stream EXCEPT
                           !.data = SubSeq(@, bytes_read + 1, Len(@)),
                           !.eof = bytes_read < ChunkSize]
           /\ \E realloc_ok \in BOOLEAN :
                IF realloc_ok
                THEN /\ command_output' =
                           Annotate(Appended(buffer), command_output_length)
                     /\ pc' = "replay"
                     /\ UNCHANGED <<curses_started, exit_status>>
                ELSE /\ plain_exit(1)
                     /\ UNCHANGED command_output
    /\ UNCHANGED <<config, since_then, previous_run_output, jump_before_known, height, term_rows, screen_size_changed,
                   rerun_command, view_changed, max_y, origin_x, origin_y,
                   go_to_end, command_pipe, open_pipes, run_output,
                   previous_command_output, previous_alloc, x, y, offset,
                   done>>

\* refresh(); the locals of the render pass go out of scope.
Refresh ==
    /\ pc = "refresh"
    /\ x' = 0 /\ y' = 0 /\ offset' = 0 /\ done' = FALSE
    /\ pc' = "input"
    /\ UNCHANGED <<config, since_then, previous_run_output, jump_before_known, height, term_rows, screen_size_changed,
                   rerun_command, view_changed, max_y, origin_x, origin_y,
                   go_to_end, command_pipe, open_pipes, stream, run_output,
                   command_output, previous_command_output, previous_alloc,
                   curses_started, exit_status>>

\* The keys getch() can return; without -p getch is not called.
Keys ==
    IF option_paging = 1
    THEN {KEY_NONE, "other"} \cup
         {k \in PagingKeys : k = "KEY_RIGHT" => origin_x + ScrollStep <= MaxOriginX}
    ELSE {KEY_NONE}

\* origin_y after the switch on key c.
KeyOriginY(c) ==
    CASE c = "KEY_UP"    -> Max(origin_y - ScrollStep, 0)
      [] c = "KEY_DOWN"  -> origin_y + ScrollStep
      [] c = "KEY_NPAGE" -> origin_y + (height - show_title)
      [] c = "KEY_PPAGE" -> Max(origin_y - (height - show_title), 0)
      [] c = "g"         -> 0
      [] OTHER           -> origin_y

\* origin_x after the switch on key c.
KeyOriginX(c) ==
    CASE c = "KEY_RIGHT" -> origin_x + ScrollStep
      [] c = "KEY_LEFT"  -> Max(origin_x - ScrollStep, 0)
      [] c = "g"         -> 0
      [] c = "G"         -> 0
      [] OTHER           -> origin_x

\* view_changed after the switch on key c, with 'G' leaving it alone.
KeyViewChangedNotOnEnd(c) == IF c \in PagingKeys \ {"G"} THEN 1 ELSE 0

\* view_changed after view_changed = 0 and the switch on key c.
KeyViewChanged(c) == IF c \in PagingKeys THEN 1 ELSE 0

\* view_changed = 0; if (option_paging && ((c = getch()) != ERR)) switch (c)
GetInput ==
    /\ pc = "input"
    /\ \E c \in Keys :
          /\ origin_y' = KeyOriginY(c)
          /\ origin_x' = KeyOriginX(c)
          /\ go_to_end' = IF c = "G" THEN TRUE ELSE go_to_end
          /\ jump_before_known' =
                IF c = "G" THEN max_y = -1 ELSE jump_before_known
          /\ view_changed' = KeyViewChanged(c)
    /\ pc' = "timer"
    /\ UNCHANGED <<config, since_then, previous_run_output, height, term_rows, screen_size_changed,
                   rerun_command, max_y, command_pipe, open_pipes, stream,
                   run_output, command_output, previous_command_output,
                   previous_alloc, x, y, offset, done, curses_started,
                   exit_status>>

\* What gettimeofday can add to the time since the last call: the wall
\* clock advances, stands still within a tick, or is stepped back.
ClockSteps == -1..interval

\* The comparison with > in place of >=.
ExpiredStrictly(elapsed) == elapsed < 0 \/ elapsed > interval

\* time_now - time_then >= interval * 1000000, in unsigned long: a clock
\* stepped back behind time_then wraps to a huge difference.
Expired(elapsed) == elapsed < 0 \/ elapsed >= interval

\* gettimeofday; if (time_now - time_then >= interval * 1000000) ...
TimerUpdate ==
    /\ pc = "timer"
    /\ \E clock_ok \in BOOLEAN, dt \in ClockSteps :
          LET elapsed == since_then + dt
          IN  IF clock_ok
              THEN /\ rerun_command' = IF Expired(elapsed) THEN 1 ELSE 0
                   /\ since_then' = IF Expired(elapsed) THEN 0 ELSE elapsed
                   /\ pc' = "resize_check"
                   /\ UNCHANGED <<curses_started, exit_status>>
              ELSE /\ plain_exit(1)
                   /\ UNCHANGED <<rerun_command, since_then>>
    /\ UNCHANGED <<config, previous_run_output, jump_before_known, height,
                   term_rows, screen_size_changed, view_changed, max_y,
                   origin_x, origin_y, go_to_end, command_pipe, open_pipes,
                   stream, run_output, command_output,
                   previous_command_output, previous_alloc, x, y, offset,
                   done>>

----------------------------------------------------------------------------

Tick ==
    \/ ResizeCheck
    \/ Clamp
    \/ RedrawDecision
    \/ Rerun
    \/ RestartDraw
    \/ Replay
    \/ FeofCheck
    \/ Fread
    \/ Refresh
    \/ GetInput
    \/ TimerUpdate

Next ==
    \/ Tick
    \/ get_terminal_size
    \/ ResizeAck
    \/ winch_handler

Spec == Init /\ [][Next]_vars

\* Without SIGWINCH the resize branch is never entered.
SpecDiff == InitDiff /\ [][Tick]_vars

SpecDraw == InitDraw /\ [][Tick]_vars

\* The main loop is the only thread: it runs whenever it can.
SpecDrawFair == SpecDraw /\ WF_vars(Tick)

----------------------------------------------------------------------------
(* Claims. *)

\* C1: in every reachable state of the main loop origin_x >= 0 and
\* origin_y >= 0; a viewport on content shorter than the terminal stays at
\* origin_y = 0 once the clamp has run.
C1_OriginNonNegative == origin_x >= 0 /\ origin_y >= 0

\* C2, as claimed: whenever max_y is known, in every reachable state,
\* origin_y <= max(0, max_y - height).
C2_ClampedInEveryState ==
    max_y # -1 => origin_y <= Max(0, max_y - height)

\* C2, amended: whenever max_y is known, origin_y <= max(0, max_y - height)
\* holds once the clamp at the top of the tick has run, at the redraw
\* decision (a scroll-down key moves origin_y past the bound until then).
C2_ClampedAtRedrawDecision ==
    (pc = "decide" /\ max_y # -1) => origin_y <= Max(0, max_y - height)

\* C2 witness: the clamp has pulled a scrolled-down origin back to the last
\* page of content taller than the terminal.
C2_Witness ==
    /\ pc = "decide"
    /\ max_y # -1
    /\ origin_y > 0
    /\ origin_y = max_y - height

\* C3: a go-to-end requested while max_y is unknown leaves origin_y alone
\* until it is resolved, and at the step that clears go_to_end origin_y
\* becomes max_y - height if the content is at least as tall as the
\* terminal, and 0 if it is shorter.
C3_GoToEndResolution ==
    [][/\ (jump_before_known /\ go_to_end') => origin_y' = origin_y
       /\ (jump_before_known /\ ~go_to_end') =>
             /\ stream.eof
             /\ origin_y' = IF max_y' >= height THEN max_y' - height ELSE 0
      ]_vars

\* C4: in non-cumulative diff mode the highlight bit is set on the cell at
\* offset i if and only if i is below the previous buffer's length and the
\* bare character differs from the previous buffer's bare character at i.
C4_HighlightIffDiffers ==
    (option_differences = 1 /\ option_differences_cumulative = 0) =>
        \A i \in 1..command_output_length :
            (StandoutBit \in command_output[i].attr) <=>
                /\ i <= previous_command_output_length
                /\ command_output[i].ch # previous_command_output[i].ch

\* C5: in cumulative diff mode, at every offset present in both buffers,
\* every attribute bit of the previous cell is set on the new cell, whether
\* or not the character changed.
C5_CumulativeCarry ==
    option_differences_cumulative = 1 =>
        \A i \in 1..command_output_length :
            i <= previous_command_output_length =>
                previous_command_output[i].attr \subseteq command_output[i].attr

\* C5 witness: an ASCII cell flagged in the previous run keeps its flag in
\* a run where its character is the same.
C5_Witness ==
    /\ option_differences_cumulative = 1
    /\ \E i \in 1..command_output_length :
          /\ i <= previous_command_output_length
          /\ previous_command_output[i].ch < 128
          /\ StandoutBit \in previous_command_output[i].attr
          /\ command_output[i].ch = previous_command_output[i].ch
          /\ StandoutBit \in command_output[i].attr

\* A step of the rerun block that starts a run.
RunStart == pc = "rerun" /\ pc' = "restart_draw"

\* C6, as claimed: at every run start the buffer demoted to
\* previous_command_output holds the whole output of the preceding run
\* (nothing on the first run).
C6_PreviousIsWholeOutput ==
    [][RunStart => Chars(previous_command_output') = run_output]_vars

\* C6, amended: at every run start the buffer demoted to
\* previous_command_output is the active buffer as it stood, which is empty
\* on the first run and otherwise holds the bytes read from the preceding
\* run so far: a prefix of that run's output, and the whole of it when that
\* run had been read to end-of-stream (max_y known).
C6_PreviousIsWhatWasRead ==
    [][RunStart =>
          /\ previous_command_output' = command_output
          /\ command_pipe = 0 => previous_command_output' = <<>>
          /\ IsPrefix(Chars(previous_command_output'), run_output)
          /\ max_y # -1 => Chars(previous_command_output') = run_output
      ]_vars

\* C6 witness: a run has started with a previous buffer that is a proper,
\* non-empty prefix of what the preceding run wrote.
C6_Witness ==
    /\ pc = "restart_draw"
    /\ command_output = <<>>
    /\ previous_command_output # <<>>
    /\ IsPrefix(Chars(previous_command_output), previous_run_output)
    /\ previous_command_output_length < Len(previous_run_output)

\* C7: a resize notification is never lost: whenever no notification is
\* pending, the rows in use are the terminal's rows.
C7_ResizeNeverLost == screen_size_changed = 0 => height = term_rows

\* C8: every fatal exit restores the terminal before the process exits.
C8_FatalExitRestoresTerminal == pc = "exited" => ~curses_started

\* C9: at most one pipe is open at any time, and feof and fread act on an
\* open pipe, the one the latest run start opened.
C9_OnePipe ==
    /\ Cardinality(open_pipes) <= 1
    /\ pc \in {"feof", "fread"} =>
          command_pipe # 0 /\ command_pipe \in open_pipes

\* C9 witness: a read in a run that was started by a re-run.
C9_Witness ==
    /\ pc = "fread"
    /\ previous_command_output # <<>>
    /\ open_pipes = {command_pipe}

\* C10: a command that has written some bytes and then stalls with its
\* stream open does not stop the loop: the render pass is never left
\* waiting in fread with cells it has read and not flushed.
C10_NoStarvation ==
    (pc = "fread" /\ stream.hangs /\ command_output_length > 0) => ENABLED Tick

\* C11: the tick goes from the redraw decision into the clear-and-repaint
\* path if and only if rerun_command or view_changed is set; it reaches the
\* rerun block, and a pipe is opened or closed, only with rerun_command
\* set; and a step taken with neither flag set reads nothing from the
\* command and leaves command_output, previous_command_output and max_y
\* as they are.
C11_RedrawIffFlagged ==
    [][/\ (pc = "decide" /\ pc' # "decide") =>
             /\ pc' \in {"rerun", "restart_draw"} <=>
                    (rerun_command = 1 \/ view_changed = 1)
             /\ pc' = "rerun" <=> rerun_command = 1
             /\ pc' \in {"rerun", "restart_draw", "input"}
       /\ (RunStart \/ command_pipe' # command_pipe \/ open_pipes' # open_pipes) =>
             rerun_command = 1
       /\ (rerun_command = 0 /\ view_changed = 0) =>
             UNCHANGED <<command_output, previous_command_output, max_y,
                         stream, command_pipe>>
      ]_vars

\* C11 witness: a tick with neither flag set has gone past the redraw
\* decision straight to the input step, with the output of a finished run
\* in the buffer.
C11_Witness ==
    /\ pc = "input"
    /\ rerun_command = 0
    /\ view_changed = 0
    /\ command_output # <<>>
    /\ max_y # -1

\* The cursor after the characters chars, from column cx of row cy, by the
\* rule of C12: a tab adds 8 to the column, a newline resets the column and
\* adds 1 to the row, any other character adds 1 to the column.
RECURSIVE CursorByRule(_, _, _)
CursorByRule(chars, cx, cy) ==
    IF chars = <<>> THEN <<cx, cy>>
    ELSE LET c == Head(chars)
         IN  CursorByRule(Tail(chars),
                          IF c = TAB THEN cx + 8 ELSE IF c = NL THEN 0 ELSE cx + 1,
                          IF c = NL THEN cy + 1 ELSE cy)

\* C12: the replay moves the cursor over the cells it goes through by the
\* rule (tab: column + 8; newline: column 0, row + 1; any other cell:
\* column + 1); and replaying "a\tb\nc" from the start meets "b" at column
\* 8 of row 0 and ends at row 1, column 1, rows counted from the first
\* content row.
C12_CursorModel ==
    pc = "replay" =>
        LET r == ReplayFrom(x, y, offset)
        IN  /\ <<r.x, r.y>> =
                  CursorByRule(Chars(SubSeq(command_output, offset + 1, r.offset)),
                               x, y)
            /\ (offset = 0 /\ Chars(command_output) = SampleText
                           /\ r.offset = Len(SampleText)) =>
                  /\ \E p \in Processed(x, y, offset) :
                        p.offset = 2 /\ p.x = 8 /\ p.y - show_title = 0
                  /\ r.x = 1
                  /\ r.y - show_title = 1

\* C13: reading in chunks is transparent: the cells assembled so far, chunk
\* by chunk, are the first cells of what one read of the run's whole output
\* would have assembled and annotated against the same previous buffer; and
\* assembling that output in two chunks, split at any point, gives the
\* cells of the one read.
C13_ChunkingTransparent ==
    pc \notin {"exited", "crashed"} =>
        LET bulk == Annotate(ToCells(run_output), 0)
        IN  /\ command_output = SubSeq(bulk, 1, command_output_length)
            /\ \A k \in 0..Len(run_output) :
                  Annotate(Annotate(ToCells(SubSeq(run_output, 1, k)), 0)
                              \o ToCells(SubSeq(run_output, k + 1, Len(run_output))),
                           k) = bulk

\* C13 witness: an output longer than a chunk has been read to its end in
\* several reads, and its last cell was highlighted against the previous
\* run's.
C13_Witness ==
    /\ pc = "refresh"
    /\ stream.eof
    /\ command_output_length > ChunkSize
    /\ Chars(command_output) = run_output
    /\ command_output[command_output_length].ch < 128
    /\ StandoutBit \in command_output[command_output_length].attr

\* C14: a cell the replay meets at column x of row y is drawn if and only
\* if it is printable, no go-to-end scan is pending, and it lies in the
\* visible rectangle: its content row y - show_title is at least origin_y
\* and below origin_y + height - show_title, and x is at least origin_x and
\* below origin_x + width.  Every drawn cell is put at screen row
\* y - origin_y and column x - origin_x, the row in show_title..height-1
\* and the column in 0..width-1: never on a title row, never off the
\* screen.
C14_DrawnIffVisible ==
    pc = "replay" =>
        LET met   == Processed(x, y, offset)
            drawn == Addch(x, y, offset)
        IN  /\ \A p \in met :
                  LET cell == command_output[p.offset + 1]
                      row  == p.y - show_title
                  IN  (\E d \in drawn : d.offset = p.offset) <=>
                          /\ IsPrint(cell.ch)
                          /\ ~go_to_end
                          /\ origin_y <= row
                          /\ row < origin_y + height - show_title
                          /\ origin_x <= p.x
                          /\ p.x < origin_x + width
            /\ \A d \in drawn :
                  /\ \E p \in met : /\ p.offset = d.offset
                                    /\ d.row = p.y - origin_y
                                    /\ d.col = p.x - origin_x
                  /\ d.row \in show_title..(height - 1)
                  /\ d.col \in 0..(width - 1)

\* C14 witness: one replay of the whole buffer draws a cell below the
\* title and leaves out a printable cell of a visible row that lies right
\* of the last column.
C14_Witness ==
    /\ pc = "replay"
    /\ offset = 0
    /\ show_title = TitleLines
    /\ Addch(x, y, offset) # {}
    /\ \E p \in Processed(x, y, offset) :
          /\ IsPrint(command_output[p.offset + 1].ch)
          /\ p.y - origin_y \in show_title..(height - 1)
          /\ p.x - origin_x >= width

\* C15: max_y is -1 from the start of a run until the stream of that run
\* has reached end-of-file and the whole of its output is in the buffer;
\* whenever it is not -1 it is the row the cursor ends on when the whole
\* output of the current run is replayed from the first content row.
C15_MaxYIsRowCount ==
    max_y # -1 =>
        /\ stream.eof
        /\ Chars(command_output) = run_output
        /\ max_y = CursorByRule(run_output, 0, show_title)[2]

\* C16: origin_x and origin_y change only at the dispatch of a key, at the
\* resolution of a go-to-end, or at the clamp of a tick that has a key or a
\* resize to show (view_changed set); so without paging they are 0 after
\* every step.
C16_OriginMovesOnEventsOnly ==
    [][/\ <<origin_x, origin_y>>' # <<origin_x, origin_y>> =>
             \/ pc = "input"
             \/ pc = "feof" /\ go_to_end
             \/ pc = "clamp" /\ view_changed = 1
       /\ option_paging = 0 => (origin_x' = 0 /\ origin_y' = 0)
      ]_vars

\* C17: a timer update that finds the interval elapsed restarts the count
\* from the present and sets rerun_command, one that does not leaves the
\* count below the interval and clears rerun_command; nothing else writes
\* rerun_command, so the next tick enters the rerun block exactly when the
\* interval had elapsed (or it is the first tick), enters it once, and a
\* run started there has closed the old pipe, taken the snapshot, emptied
\* command_output and opened one new pipe.
C17_RerunOnExpiry ==
    [][/\ (pc = "timer" /\ pc' = "resize_check") =>
             /\ rerun_command' = 1 => since_then' = 0
             /\ rerun_command' = 0 => since_then' \in 0..(interval - 1)
       /\ rerun_command' # rerun_command => pc = "timer"
       /\ since_then' # since_then => pc = "timer"
       /\ (pc = "decide" /\ pc' # "decide") =>
             (pc' = "rerun" <=> rerun_command = 1)
       /\ (pc' = "rerun" /\ pc # "rerun") => pc = "decide"
       /\ (pc = "rerun" /\ pc' # "rerun") => rerun_command = 1
       /\ RunStart =>
             /\ previous_command_output' = command_output
             /\ command_output' = <<>>
             /\ command_pipe' # 0
             /\ open_pipes' = {command_pipe'}
       /\ open_pipes' # open_pipes => pc = "rerun"
      ]_vars

\* C17 witness: a run started by the timer, after ticks in which the
\* interval had not elapsed, has taken over from a run that was read.
C17_Witness ==
    /\ pc = "restart_draw"
    /\ rerun_command = 1
    /\ since_then = 0
    /\ previous_command_output # <<>>
    /\ command_output = <<>>
    /\ open_pipes = {command_pipe}

\* C18: a step that does not start a run leaves previous_command_output as
\* it is and leaves every cell of command_output in place, character and
\* attributes, adding cells at the end at most; the step that starts a
\* run, and no other, empties command_output and makes
\* previous_command_output the command_output it found.
C18_AppendOnlyWithinRun ==
    [][IF RunStart
       THEN /\ previous_command_output' = command_output
            /\ command_output' = <<>>
       ELSE /\ IsPrefix(command_output, command_output')
            /\ previous_command_output' = previous_command_output
      ]_vars

\* C18 witness: a second chunk has been appended behind a cell that was
\* highlighted against the previous run when the first chunk was read.
C18_Witness ==
    /\ pc = "replay"
    /\ command_output_length > ChunkSize
    /\ previous_command_output # <<>>
    /\ command_output[1].ch < 128
    /\ StandoutBit \in command_output[1].attr

\* C19: a go-to-end does not outlive a render pass.  Once the stream of the
\* run can reach end-of-file (the command does not stall), a render pass
\* that has started reaches the flush, or the program ends; the replay is
\* restarted from the feof branch only with go_to_end set and the restart
\* clears it, and only a key sets it, so a pass restarts at most once;
\* go_to_end is false at the flush; and while go_to_end is set the loop is
\* either on its way from the 'G' key to the redraw decision with
\* view_changed set, or in the render pass.
C19_GoToEndResolved ==
    /\ [](pc = "refresh" => ~go_to_end)
    /\ [](go_to_end =>
            \/ /\ pc \in {"timer", "resize_check", "clamp", "decide"}
               /\ view_changed = 1
            \/ pc \in {"rerun", "restart_draw", "replay", "feof", "fread"}
            \/ pc \in {"exited", "crashed"})
    /\ [][/\ (pc = "feof" /\ pc' = "restart_draw") => (go_to_end /\ ~go_to_end')
          /\ (~go_to_end /\ go_to_end') => pc = "input"
         ]_vars
    /\ (pc \in {"restart_draw", "replay", "feof", "fread"} /\ ~stream.hangs)
          ~> (pc \in {"refresh", "exited"})

\* C19 witness: the feof branch has resolved a go-to-end and sent the
\* replay back to the start.
C19_Witness ==
    /\ pc = "restart_draw"
    /\ offset > 0
    /\ stream.eof
    /\ ~go_to_end
    /\ max_y = y
    /\ origin_y = EndOriginY

\* C20: whenever the clamp at the top of a tick changes origin_y, that tick
\* redraws (rerun_command or view_changed is set), so the screen is never
\* left showing the view of another origin_y.
C20_ClampImpliesRedraw ==
    [][(pc = "clamp" /\ origin_y' # origin_y) =>
          (rerun_command = 1 \/ view_changed = 1)]_vars

====
